---- MODULE Spec2Model ----
(***************************************************************************)
(* Mira: Git mirrors from a JSON config file (src/src/main.rs).            *)
(*                                                                         *)
(* The model follows process_root_config -> process_config -> mirror_repo  *)
(* -> run_git_command_in step by step.  The git executable and the         *)
(* filesystem are the environment: every git invocation and every          *)
(* directory creation may succeed or fail.                                 *)
(***************************************************************************)
EXTENDS Integers, Sequences, FiniteSets, TLC

\* ------------------------------------------------------------------ bounds
\* Longest list of configurations in a root config.
MaxConfigs == 2
\* Longest list of mirrors in one configuration.
MaxMirrors == 2
\* How many times the program is run in one behaviour.
MaxRuns == 2
\* Size of the largest behaviour: its calls of mirror_repo (mirrors of the
\* config x runs) plus the paths that exist below the workspace before the
\* first run.
MaxWork == 4
\* Most paths below the workspace that exist before the first run.
MaxPreexisting == 2

\* ------------------------------------------------------------ input values
\* const MIRROR_REMOTE_NAME (main.rs:9)
MIRROR_REMOTE_NAME == "mirror"

\* Option<T>: None is the empty sequence, Some(x) the one-element sequence.
None == <<>>

Some(x) == <<x>>

\* Option::unwrap
unwrap(opt) == opt[1]

\* RootConfig.workspace
WorkspaceName == "ws"

\* The i-th configuration of a root config is named ConfigNameAt[i].
ConfigNameAt == [i \in 1..(MaxConfigs + 1) |->
                    IF i = 1 THEN "teamA" ELSE IF i = 2 THEN "teamB"
                    ELSE IF i = 3 THEN "teamC" ELSE "teamD"]

ConfigNames == {ConfigNameAt[i] : i \in 1..MaxConfigs}

\* struct Mirror (main.rs:52-56).  Mirror names are interchangeable, so the
\* first mirror of a configuration is always FirstMirror; a later one is
\* either a mirror with a new name or one that reuses the first name with
\* another destination.
FirstMirror == [name |-> "repo1", src |-> "src1", dest |-> "dest1"]

OtherMirror == [name |-> "repo2", src |-> "src2", dest |-> "dest2"]

DuplicateMirror == [name |-> "repo1", src |-> "src1", dest |-> "dest2"]

Mirror == {FirstMirror, OtherMirror, DuplicateMirror}

MirrorNames == {m.name : m \in Mirror}

\* The destination of a mirror remote that exists before the first run.
PreexistingUrl == "dest0"

MirrorLists ==
    {l \in UNION {[1..n -> Mirror] : n \in 0..MaxMirrors} :
        \A i \in DOMAIN l : IF i = 1 THEN l[i] = FirstMirror
                                     ELSE l[i] # FirstMirror}

\* struct Configuration (main.rs:45-48)
Configuration == [name : ConfigNames, mirrors : MirrorLists]

\* struct RootConfig (main.rs:38-41)
RootConfig ==
    {[workspace |-> WorkspaceName, configurations |-> cs] :
        cs \in {l \in UNION {[1..n -> Configuration] : n \in 0..MaxConfigs} :
                    \A i \in DOMAIN l : l[i].name = ConfigNameAt[i]}}

RECURSIVE SumMirrors(_, _)
SumMirrors(cs, i) ==
    IF i = 0 THEN 0 ELSE Len(cs[i].mirrors) + SumMirrors(cs, i - 1)

TotalMirrors(rc) == SumMirrors(rc.configurations, Len(rc.configurations))

\* ------------------------------------------------------------------- paths
\* A path is the sequence of its components.
WorkspacePath(rc) == <<rc.workspace>>

\* PathBuf::push
push_path(path, component) == Append(path, component)

ConfigPaths == {<<WorkspaceName, c>> : c \in ConfigNames}

RepoPaths == {<<WorkspaceName, c, m>> : c \in ConfigNames, m \in MirrorNames}

Paths == {<<WorkspaceName>>} \cup ConfigPaths \cup RepoPaths

Parent(path) == SubSeq(path, 1, Len(path) - 1)

\* Path::to_str: every path of the program is built from Strings of the
\* config, so it is valid UTF-8 and to_str never yields None here.
to_str(path) == Some(path)

\* ------------------------------------------------------------- environment
VARIABLES
    root_config,   \* the parsed RootConfig handed to process_root_config
    fs,            \* filesystem: path -> "absent" | "file" | "dir"
    repo,          \* git's own data of each repository path: remotes and the
                   \* URL of the remote named MIRROR_REMOTE_NAME
    env0,          \* the environment before the first run
    env1,          \* the environment at the start of the current run
    run,           \* number of the current run of the program, from 1
    mode,          \* "first" | "rerun" | "whatif": how the current run began
    forced,        \* <<ci, mi>> of the mirror whose push is forced to fail in
                   \* a what-if run, else <<>>
    pc,            \* the program's position
    ci,            \* index of the current configuration (for, main.rs:70)
    mi,            \* index of the current mirror (for, main.rs:103)
    root_success,  \* complete_success of process_root_config (main.rs:69)
    config_success,\* complete_success of process_config (main.rs:102)
    remotes,       \* remotes of mirror_repo (main.rs:154), an Option
    ret,           \* the value mirror_repo returned, an Option<Result>
    result,        \* the value process_root_config returned, an Option<bool>
    exit_code,     \* the process exit code, an Option
    log,           \* the git invocations of the current mirror_repo call
    config_rets,   \* what process_config returned, per configuration so far
    visited,       \* the mirror_repo calls of the current process_config call:
                   \* mirror index and returned value
    n_calls,       \* number of mirror_repo calls of this run
    n_success,     \* how many of them returned Ok(Success)
    results,       \* per mirror_repo call of this run: position, returned
                   \* value, answers; kept only if another run can follow
    prev_results,  \* results of the previous run
    found,         \* what the repository path was when mirror_repo was
                   \* called: "absent" | "file" | "dir"
    same           \* git has answered every invocation of this run as it
                   \* answered that stage of that mirror in the previous run

vars == <<root_config, fs, repo, env0, env1, run, mode, forced, pc, ci, mi,
          root_success, config_success, remotes, ret, result, exit_code,
          log, config_rets, visited, n_calls, n_success, results,
          prev_results, found, same>>

Env == [fs |-> fs, repo |-> repo]

NoRepo == [remotes |-> {}, url |-> None]

\* Mutant of is_dir: anything that exists counts as a directory.
is_dir_if_exists(path, f) == f[path] # "absent"

\* Path::is_dir
is_dir(path, f) == f[path] = "dir"

\* Mutant of exists: nothing is ever found.
exists_never(path, f) == FALSE

\* Mutant of exists: only a regular file counts as existing.
exists_if_file(path, f) == f[path] = "file"

\* Path::exists
exists(path, f) == f[path] # "absent"

\* The prefixes of a path, the path itself included.
Ancestors(path) == {SubSeq(path, 1, n) : n \in 1..Len(path)}

\* Mutant of create_dir_all: the call may report success without having
\* created anything.
create_dir_all_unchecked(path, f) ==
    {[ok |-> FALSE, fs |-> f], [ok |-> TRUE, fs |-> f]}

\* fs::create_dir_all: the possible results, [ok, fs].  It fails when a
\* component of the path is not a directory, and it may fail for a reason
\* the model does not see (permissions, a full disk); a failure creates
\* nothing.
create_dir_all(path, f) ==
    {[ok |-> FALSE, fs |-> f]} \cup
    IF \E a \in Ancestors(path) : f[a] = "file"
    THEN {}
    ELSE {[ok |-> TRUE,
           fs |-> [q \in DOMAIN f |-> IF q \in Ancestors(path) THEN "dir" ELSE f[q]]]}

\* Vec<u8>: text is a sequence of tokens, or bytes that are not valid UTF-8.
Bytes(tokens) == [utf8 |-> TRUE, tokens |-> tokens]

BadUtf8 == [utf8 |-> FALSE, tokens |-> <<>>]

\* String::from_utf8(bytes).ok()
from_utf8_ok(bytes) == IF bytes.utf8 THEN Some(bytes.tokens) ELSE None

\* These tokens are whitespace.
Whitespace == {" ", "\n"}

\* A remote name that is not valid UTF-8 (git takes any bytes above 0x7f in
\* a remote name); standing for its bytes.
NonUtf8RemoteName == "0xFF"

\* `git remote` prints one remote name per line, sorted.
RemoteOrder == <<"mirror", "origin", NonUtf8RemoteName>>

RECURSIVE RemoteLines(_, _)
RemoteLines(names, i) ==
    IF i > Len(RemoteOrder) THEN <<>>
    ELSE (IF RemoteOrder[i] \in names THEN <<RemoteOrder[i], "\n">> ELSE <<>>)
         \o RemoteLines(names, i + 1)

\* What `git remote` writes to stdout for these remotes: bytes that are
\* valid UTF-8 unless one of the names is not.
RemoteOutput(names) ==
    [utf8 |-> NonUtf8RemoteName \notin names, tokens |-> RemoteLines(names, 1)]

\* The remotes of a fresh `git clone --mirror`, as `git remote` then reports
\* them: none, as in the spec's first-run scenario.  The program only looks
\* for MIRROR_REMOTE_NAME among them; repositories found by the first run
\* have the remote "origin" (InitRepo).
CloneRemotes == {{}}

\* std::process::Output as far as the program reads it, or the spawn error.
SpawnError == [spawned |-> FALSE]

Exited(status, out, err) ==
    [spawned |-> TRUE, status |-> status, stdout |-> out, stderr |-> err]

\* The git executable, Command::new("git").args(full_args).output(): the
\* set of possible [output, fs, repo] for the invocation full_args =
\* <<"-C", cwd, subcommand...>> in environment e.  Every invocation may fail
\* to spawn or exit nonzero, and then changes nothing.  It can exit 0 only
\* when cwd is a directory; clone also needs a free target path, remote add
\* a name not yet in use and push a remote that exists.
Git(full_args, e) ==
    LET cwd  == full_args[2]
        cmd  == SubSeq(full_args, 3, Len(full_args))
        unchanged(o) == [output |-> o, fs |-> e.fs, repo |-> e.repo]
        fails == {unchanged(SpawnError),
                  unchanged(Exited(1, Bytes(<<>>), Bytes(<<"fatal">>))),
                  unchanged(Exited(1, Bytes(<<>>), BadUtf8))}
        ok ==
            IF e.fs[cwd] # "dir" THEN {}
            ELSE IF cmd[1] = "clone" THEN
                LET target == push_path(cwd, cmd[4]) IN
                IF e.fs[target] # "absent" THEN {}
                ELSE {[output |-> Exited(0, Bytes(<<>>), Bytes(<<>>)),
                       fs |-> [e.fs EXCEPT ![target] = "dir"],
                       repo |-> [e.repo EXCEPT ![target] =
                                    [remotes |-> r, url |-> None]]]
                        : r \in CloneRemotes}
            ELSE IF cmd = <<"remote">> THEN
                {unchanged(Exited(0, RemoteOutput(e.repo[cwd].remotes), Bytes(<<>>)))}
            ELSE IF cmd[1] = "remote" /\ cmd[2] = "add" THEN
                IF cmd[3] \in e.repo[cwd].remotes THEN {}
                ELSE {[output |-> Exited(0, Bytes(<<>>), Bytes(<<>>)),
                       fs |-> e.fs,
                       repo |-> [e.repo EXCEPT ![cwd] =
                                    [remotes |-> @.remotes \cup {cmd[3]},
                                     url |-> IF cmd[3] = MIRROR_REMOTE_NAME
                                             THEN Some(cmd[4]) ELSE @.url]]]}
            ELSE IF cmd[1] = "push" /\ cmd[Len(cmd)] \notin e.repo[cwd].remotes
            THEN {}
            ELSE {unchanged(Exited(0, Bytes(<<>>), Bytes(<<>>))),
                  unchanged(Exited(0, BadUtf8, Bytes(<<>>)))}
    IN  fails \cup ok

\* ------------------------------------------------------- git command runner
\* type GitCmdReturn = (bool, Option<String>) (main.rs:174)
GitCmdReturn(success, text) == [success |-> success, text |-> text]

\* fn run_git_command (main.rs:225-238), applied to one output of git.
git_cmd_return(output) ==
    IF output.spawned
    THEN LET success == output.status = 0 IN
         GitCmdReturn(success,
                      from_utf8_ok(IF success THEN output.stdout ELSE output.stderr))
    ELSE GitCmdReturn(FALSE, None)

\* fn run_git_command: the possible [args, ret, fs, repo].
run_git_command(full_args, e) ==
    {[args |-> full_args, ret |-> git_cmd_return(g.output),
      fs |-> g.fs, repo |-> g.repo] : g \in Git(full_args, e)}

\* fn run_git_command_in (main.rs:241-249)
run_git_command_in(args, path, e) ==
    LET p == to_str(path) IN
    IF p = None
    THEN {[args |-> <<>>, ret |-> GitCmdReturn(FALSE, None),
           fs |-> e.fs, repo |-> e.repo]}
    ELSE run_git_command(<<"-C", unwrap(p)>> \o args, e)

\* Mutant of check_git_return: only a failure that comes with text counts.
check_git_return_needs_text(cmd_return, on_error) ==
    IF ~cmd_return.success /\ cmd_return.text # None THEN Some(on_error) ELSE None

\* fn check_git_return (main.rs:180-190): Some(on_error) or None.
check_git_return(cmd_return, on_error) ==
    IF ~cmd_return.success THEN Some(on_error) ELSE None

\* fn clone (main.rs:193-196)
clone(url, path, name, e) ==
    run_git_command_in(<<"clone", "--mirror", url, name>>, path, e)

\* fn fetch (main.rs:199-201)
fetch(path, e) == run_git_command_in(<<"fetch">>, path, e)

\* Mutant of contains: only the last element is looked at.
contains_last(vec, x) == vec # <<>> /\ vec[Len(vec)] = x

\* Vec::contains
contains(vec, x) == \E i \in DOMAIN vec : vec[i] = x

\* str::split_whitespace().collect()
split_whitespace(s) == SelectSeq(s, LAMBDA t : t \notin Whitespace)

\* Mutant of get_remotes: output that cannot be decoded counts as no
\* remotes.
get_remotes_lossy(path, e) ==
    {[args |-> r.args, success |-> r.ret.success, text |-> r.ret.text,
      fs |-> r.fs, repo |-> r.repo,
      value |-> IF ~r.ret.success THEN None
                ELSE IF r.ret.text = None THEN Some(<<>>)
                ELSE Some(split_whitespace(unwrap(r.ret.text)))]
        : r \in run_git_command_in(<<"remote">>, path, e)}

\* fn get_remotes (main.rs:204-210): the possible results, with value the
\* returned Option<Vec<String>>.
get_remotes(path, e) ==
    {[args |-> r.args, success |-> r.ret.success, text |-> r.ret.text,
      fs |-> r.fs, repo |-> r.repo,
      value |-> IF ~r.ret.success THEN None
                ELSE IF r.ret.text = None THEN None
                ELSE Some(split_whitespace(unwrap(r.ret.text)))]
        : r \in run_git_command_in(<<"remote">>, path, e)}

\* fn add_mirror_remote (main.rs:213-216)
add_mirror_remote(path, url, e) ==
    run_git_command_in(<<"remote", "add", MIRROR_REMOTE_NAME, url>>, path, e)

\* Mutant of push: a plain push, without --mirror.
push_without_mirror(path, e) ==
    run_git_command_in(<<"push", MIRROR_REMOTE_NAME>>, path, e)

\* fn push (main.rs:219-222)
push(path, e) ==
    run_git_command_in(<<"push", "--mirror", MIRROR_REMOTE_NAME>>, path, e)

\* ------------------------------------------------------------ initial state
\* The paths the config names: only these can matter to a run.
Mentioned(rc) ==
    {WorkspacePath(rc)} \cup
    {push_path(WorkspacePath(rc), rc.configurations[i].name)
        : i \in DOMAIN rc.configurations} \cup
    UNION {{push_path(push_path(WorkspacePath(rc), rc.configurations[i].name),
                      rc.configurations[i].mirrors[j].name)
                : j \in DOMAIN rc.configurations[i].mirrors}
            : i \in DOMAIN rc.configurations}

\* Number of paths below the workspace that exist in filesystem f.
Preexisting(f) == Cardinality({q \in DOMAIN f : Len(q) > 1 /\ f[q] # "absent"})

\* Size of a behaviour of r runs on config rc from filesystem f.
Work(rc, f, r) == TotalMirrors(rc) * r + Preexisting(f)

\* The filesystems the first run may find: the workspace is absent, a file
\* or a directory; below it a few of the paths the config names exist, as
\* files or as directories, each inside a directory.
InitFs(rc) ==
    LET below == {E \in SUBSET (Mentioned(rc) \ {WorkspacePath(rc)}) :
                    /\ Cardinality(E) <= MaxPreexisting
                    /\ Cardinality(E) + TotalMirrors(rc) <= MaxWork
                    /\ \A q \in E : Len(q) > 2 => Parent(q) \in E}
        kinds(E) == {k \in [E -> {"file", "dir"}] :
                        \A q \in E : Len(q) > 2 => k[Parent(q)] = "dir"}
        absent == [q \in Paths |-> "absent"]
    IN  {absent, [absent EXCEPT ![WorkspacePath(rc)] = "file"]} \cup
        UNION {{[q \in Paths |-> IF q = WorkspacePath(rc) THEN "dir"
                                 ELSE IF q \in E THEN k[q] ELSE "absent"]
                    : k \in kinds(E)} : E \in below}

\* A repository directory found by the first run has a mirror remote
\* (pointing at PreexistingUrl), or has none, or has none and a remote whose
\* name is not valid UTF-8.
InitRepo(f) ==
    LET dirs == {q \in RepoPaths : f[q] = "dir"} IN
    {[q \in RepoPaths |-> IF q \in dirs THEN r[q] ELSE NoRepo] :
        r \in [dirs -> {[remotes |-> {"origin"}, url |-> None],
                        [remotes |-> {"origin", MIRROR_REMOTE_NAME},
                         url |-> Some(PreexistingUrl)],
                        [remotes |-> {"origin", NonUtf8RemoteName},
                         url |-> None]}]}

\* The locals of one run before process_root_config starts.
StartRun ==
    /\ pc = "process_root_config"
    /\ ci = 0
    /\ mi = 0
    /\ root_success = TRUE
    /\ config_success = TRUE
    /\ remotes = None
    /\ ret = None
    /\ result = None
    /\ exit_code = None
    /\ log = <<>>
    /\ config_rets = <<>>
    /\ visited = <<>>
    /\ n_calls = 0
    /\ n_success = 0
    /\ results = <<>>
    /\ found = "absent"
    /\ same = TRUE

Init ==
    /\ root_config \in {rc \in RootConfig : TotalMirrors(rc) <= MaxWork}
    /\ fs \in InitFs(root_config)
    /\ repo \in InitRepo(fs)
    /\ env0 = Env
    /\ env1 = Env
    /\ run = 1
    /\ mode = "first"
    /\ forced = <<>>
    /\ prev_results = <<>>
    /\ StartRun

\* ----------------------------------------------------------------- program
\* Result<T, io::Error>
Ok(v) == [ok |-> TRUE, value |-> v]

Err == [ok |-> FALSE, value |-> "io::Error"]

\* enum MirrorResult (main.rs:80-86)
MirrorResult == {"Success", "CloneFailed", "FetchFailed", "RemotesError", "PushFailed"}

\* process::exit(if process_root_config(..) { 0 } else { 1 }) (main.rs:26)
ExitCode(success) == IF success THEN 0 ELSE 1

\* Mutant of after_process_config: an I/O error of process_config is
\* reported and forgotten.
after_process_config_forgetting(complete_success, r) == complete_success

\* The caller's handling of what process_config returned (main.rs:71-74).
after_process_config(complete_success, r) ==
    IF ~r.ok THEN FALSE ELSE complete_success

\* Mutant of match_mirror_result: the RemotesError arm leaves
\* complete_success alone.
match_mirror_result_lenient(complete_success, r) ==
    IF r.ok /\ r.value \in {"Success", "RemotesError"}
    THEN complete_success ELSE FALSE

\* The match on what mirror_repo returned (main.rs:104-126).
match_mirror_result(complete_success, r) ==
    IF r.ok /\ r.value = "Success" THEN complete_success ELSE FALSE

\* Mutant of more_mirrors: the loop stops at the first failed mirror.
more_mirrors_until_failure(i, mirrors, complete_success) ==
    i < Len(mirrors) /\ complete_success

\* for mirror in &config.mirrors (main.rs:103): whether the loop, having
\* taken i mirrors, takes another one.  complete_success plays no part.
more_mirrors(i, mirrors, complete_success) == i < Len(mirrors)

\* Mutant of needs_mirror_remote: the remote is added unless it is the only
\* remote of the repository.
needs_mirror_remote_unless_alone(remote_names) ==
    remote_names # <<MIRROR_REMOTE_NAME>>

\* Mutant of needs_mirror_remote: the remote is added without looking.
needs_mirror_remote_always(remote_names) == TRUE

\* if !remotes.contains(&MIRROR_REMOTE_NAME.to_string()) (main.rs:158)
needs_mirror_remote(remote_names) == ~contains(remote_names, MIRROR_REMOTE_NAME)

workspace == WorkspacePath(root_config)

config == root_config.configurations[ci]

config_path == push_path(workspace, config.name)

\* Mutant of mirror: the mirrors are taken from the last one to the first.
mirror_from_last == config.mirrors[Len(config.mirrors) + 1 - mi]

\* The loop variable of for mirror in &config.mirrors (main.rs:103).
mirror == config.mirrors[mi]

repo_path == push_path(config_path, mirror.name)

\* What the log keeps of one git invocation: the arguments handed to
\* run_git_command and the shape of the GitCmdReturn (whether text is Some).
LogEntry(full_args, success, text) ==
    [args |-> full_args, success |-> success, text |-> text # None]

\* What the model records about a run without the program holding it.
History == <<visited, n_calls, n_success, results, found, same>>

RunVars == <<root_config, env0, env1, run, mode, forced, prev_results>>

\* process_root_config returns b and main exits (main.rs:26, 65, 76).
ReturnRoot(b) ==
    /\ result' = Some(b)
    /\ exit_code' = Some(ExitCode(b))
    /\ pc' = "exit"

\* process_root_config, main.rs:59-67: ensure the workspace directory.
EnsureWorkspace ==
    /\ pc = "process_root_config"
    /\ IF ~is_dir(workspace, fs)
       THEN \E c \in create_dir_all(workspace, fs) :
              /\ fs' = c.fs
              /\ IF ~c.ok
                 THEN ReturnRoot(FALSE)
                 ELSE pc' = "for_config" /\ UNCHANGED <<result, exit_code>>
       ELSE pc' = "for_config" /\ UNCHANGED <<fs, result, exit_code>>
    /\ UNCHANGED <<repo, ci, mi, root_success, config_success, remotes, ret,
                   log, config_rets>>
    /\ UNCHANGED <<RunVars, History>>

\* process_root_config, main.rs:70: the loop takes the next configuration.
NextConfig ==
    /\ pc = "for_config"
    /\ ci < Len(root_config.configurations)
    /\ ci' = ci + 1
    /\ pc' = "process_config"
    /\ UNCHANGED <<fs, repo, mi, root_success, config_success, remotes, ret,
                   result, exit_code, log, config_rets>>
    /\ UNCHANGED <<RunVars, History>>

\* process_root_config, main.rs:76: the loop is over.
FinishRoot ==
    /\ pc = "for_config"
    /\ ~(ci < Len(root_config.configurations))
    /\ ReturnRoot(root_success)
    /\ root_success' = TRUE
    /\ UNCHANGED <<fs, repo, ci, mi, config_success, remotes, ret,
                   log, config_rets>>
    /\ UNCHANGED <<RunVars, History>>

\* process_config returns r to process_root_config (main.rs:71-74); the
\* locals of process_config are gone.
ReturnConfig(r) ==
    /\ config_rets' = Append(config_rets, r)
    /\ root_success' = after_process_config(root_success, r)
    /\ pc' = "for_config"

\* process_config, main.rs:93-102: ensure the configuration directory.
EnsureConfigDir ==
    /\ pc = "process_config"
    /\ IF ~is_dir(config_path, fs)
       THEN \E c \in create_dir_all(config_path, fs) :
              /\ fs' = c.fs
              /\ IF ~c.ok
                 THEN ReturnConfig(Err) /\ UNCHANGED <<mi, config_success>>
                 ELSE /\ pc' = "for_mirror"
                      /\ mi' = 0
                      /\ config_success' = TRUE
                      /\ UNCHANGED <<config_rets, root_success>>
       ELSE /\ pc' = "for_mirror"
            /\ mi' = 0
            /\ config_success' = TRUE
            /\ UNCHANGED <<fs, config_rets, root_success>>
    /\ visited' = <<>>
    /\ UNCHANGED <<repo, ci, remotes, ret, result, exit_code, log>>
    /\ UNCHANGED <<RunVars, n_calls, n_success, results, found, same>>

\* process_config, main.rs:103-104: the loop calls mirror_repo on the next mirror.
NextMirror ==
    /\ pc = "for_mirror"
    /\ more_mirrors(mi, config.mirrors, config_success)
    /\ mi' = mi + 1
    /\ pc' = "mirror_repo"
    /\ log' = <<>>
    /\ remotes' = None
    /\ ret' = None
    /\ n_calls' = n_calls + 1
    /\ found' = fs[push_path(config_path, config.mirrors[mi + 1].name)]
    /\ UNCHANGED <<fs, repo, ci, root_success, config_success, result,
                   exit_code, config_rets>>
    /\ UNCHANGED <<RunVars, visited, n_success, results, same>>

\* process_config, main.rs:128: the loop is over, Ok(complete_success).
FinishConfig ==
    /\ pc = "for_mirror"
    /\ ~more_mirrors(mi, config.mirrors, config_success)
    /\ ReturnConfig(Ok(config_success))
    /\ mi' = 0
    /\ config_success' = TRUE
    /\ UNCHANGED <<fs, repo, ci, remotes, ret, result, exit_code, log>>
    /\ UNCHANGED <<RunVars, History>>

\* Whether the behaviour has room for another run after this one.
AnotherRunCanFollow ==
    /\ run < MaxRuns
    /\ Work(root_config, env0.fs, run + 1) <= MaxWork

\* The stage of mirror_repo a git invocation belongs to.
Stage(full_args) ==
    LET cmd == SubSeq(full_args, 3, Len(full_args)) IN
    IF cmd[1] \in {"clone", "fetch"} THEN "local"
    ELSE IF cmd[1] = "push" THEN "push"
    ELSE IF Len(cmd) = 1 THEN "remote"
    ELSE "add"

\* How git answered as far as the program tells answers apart: whether the
\* command succeeded and, for `remote`, whether its output could be decoded.
Answer(success, decoded) ==
    IF ~success THEN "failed" ELSE IF decoded THEN "ok" ELSE "undecoded"

\* The answers in a log, stage by stage.
Answers(l) ==
    [i \in DOMAIN l |->
        [stage  |-> Stage(l[i].args),
         answer |-> Answer(l[i].success,
                           Stage(l[i].args) # "remote" \/ l[i].text)]]

\* The answer a recorded mirror_repo call got at a stage, "none" if the
\* stage did not run.
RecordedAnswer(rec, stage) ==
    LET at == {i \in DOMAIN rec.answers : rec.answers[i].stage = stage} IN
    IF at = {} THEN "none"
    ELSE rec.answers[CHOOSE i \in at : TRUE].answer

\* The previous run's records of the mirror at position <<c, m>>.
PrevAt(c, m) == {k \in DOMAIN prev_results :
                    prev_results[k].ci = c /\ prev_results[k].mi = m}

\* Answer a at this stage of the current mirror is the previous run's answer
\* (or that run did not reach the stage, or this is the forced push).
Agrees(stage, a) ==
    \/ mode = "whatif" /\ forced = <<ci, mi>> /\ stage = "push"
    \/ \A k \in PrevAt(ci, mi) :
          RecordedAnswer(prev_results[k], stage) \in {"none", a}

\* Mutant of GitStep: the failure is reported and mirror_repo goes on.
GitStep_continuing(r, on_error, next_pc) ==
    /\ log' = Append(log, LogEntry(r.args, r.ret.success, r.ret.text))
    /\ same' = (same /\ Agrees(Stage(r.args), Answer(r.ret.success, TRUE)))
    /\ fs' = r.fs
    /\ repo' = r.repo
    /\ ret' = ret
    /\ pc' = next_pc

\* Mutant of GitStep: a git that could not be spawned is returned as the
\* io::Error it was.
GitStep_propagating(r, on_error, next_pc) ==
    /\ log' = Append(log, LogEntry(r.args, r.ret.success, r.ret.text))
    /\ same' = (same /\ Agrees(Stage(r.args), Answer(r.ret.success, TRUE)))
    /\ fs' = r.fs
    /\ repo' = r.repo
    /\ LET e == check_git_return(r.ret, on_error) IN
       IF e # None
       THEN /\ ret' = IF r.ret.text = None THEN Some(Err) ELSE Some(Ok(unwrap(e)))
            /\ pc' = "match_result"
       ELSE ret' = ret /\ pc' = next_pc

\* One git invocation of mirror_repo guarded by check_git_return: on failure
\* mirror_repo returns Ok(on_error), else it goes on at next_pc.
GitStep(r, on_error, next_pc) ==
    /\ log' = Append(log, LogEntry(r.args, r.ret.success, r.ret.text))
    /\ same' = (same /\ Agrees(Stage(r.args), Answer(r.ret.success, TRUE)))
    /\ fs' = r.fs
    /\ repo' = r.repo
    /\ LET e == check_git_return(r.ret, on_error) IN
       IF e # None
       THEN ret' = Some(Ok(unwrap(e))) /\ pc' = "match_result"
       ELSE ret' = ret /\ pc' = next_pc

\* mirror_repo, main.rs:144-147: no repository path yet, clone.
Clone ==
    /\ pc = "mirror_repo"
    /\ ~exists(repo_path, fs)
    /\ \E r \in clone(mirror.src, config_path, mirror.name, Env) :
          GitStep(r, "CloneFailed", "get_remotes")
    /\ UNCHANGED <<ci, mi, root_success, config_success, remotes, result,
                   exit_code, config_rets>>
    /\ UNCHANGED <<RunVars, visited, n_calls, n_success, results, found>>

\* mirror_repo, main.rs:148-152: the repository path exists, fetch.
Fetch ==
    /\ pc = "mirror_repo"
    /\ exists(repo_path, fs)
    /\ \E r \in fetch(repo_path, Env) :
          GitStep(r, "FetchFailed", "get_remotes")
    /\ UNCHANGED <<ci, mi, root_success, config_success, remotes, result,
                   exit_code, config_rets>>
    /\ UNCHANGED <<RunVars, visited, n_calls, n_success, results, found>>

\* mirror_repo, main.rs:154-158: query the remotes, decide on remote add.
GetRemotes ==
    /\ pc = "get_remotes"
    /\ \E r \in get_remotes(repo_path, Env) :
          /\ log' = Append(log, LogEntry(r.args, r.success, r.text))
          /\ same' = (same /\ Agrees("remote",
                                      Answer(r.success, r.value # None)))
          /\ fs' = r.fs
          /\ repo' = r.repo
          /\ remotes' = r.value
          /\ IF r.value = None
             THEN ret' = Some(Ok("RemotesError")) /\ pc' = "match_result"
             ELSE /\ ret' = ret
                  /\ pc' = IF needs_mirror_remote(unwrap(r.value))
                           THEN "add_mirror_remote" ELSE "push"
    /\ UNCHANGED <<ci, mi, root_success, config_success, result, exit_code,
                   config_rets>>
    /\ UNCHANGED <<RunVars, visited, n_calls, n_success, results, found>>

\* mirror_repo, main.rs:159-164: add the mirror remote.
AddMirrorRemote ==
    /\ pc = "add_mirror_remote"
    /\ \E r \in add_mirror_remote(repo_path, mirror.dest, Env) :
          GitStep(r, "RemotesError", "push")
    /\ UNCHANGED <<ci, mi, root_success, config_success, remotes, result,
                   exit_code, config_rets>>
    /\ UNCHANGED <<RunVars, visited, n_calls, n_success, results, found>>

\* In a what-if run the push of the forced mirror fails.
PushAnswers(rs) ==
    IF mode = "whatif" /\ forced = <<ci, mi>>
    THEN {r \in rs : ~r.ret.success}
    ELSE rs

\* mirror_repo, main.rs:167-170: push, then Ok(Success).
Push ==
    /\ pc = "push"
    /\ \E r \in PushAnswers(push(repo_path, Env)) :
          /\ log' = Append(log, LogEntry(r.args, r.ret.success, r.ret.text))
          /\ same' = (same /\ Agrees("push", Answer(r.ret.success, TRUE)))
          /\ fs' = r.fs
          /\ repo' = r.repo
          /\ LET e == check_git_return(r.ret, "PushFailed") IN
             ret' = IF e # None THEN Some(Ok(unwrap(e))) ELSE Some(Ok("Success"))
          /\ pc' = "match_result"
    /\ UNCHANGED <<ci, mi, root_success, config_success, remotes, result,
                   exit_code, config_rets>>
    /\ UNCHANGED <<RunVars, visited, n_calls, n_success, results, found>>

\* The locals of mirror_repo are gone once its result has been consumed.
MirrorRepoReturned ==
    /\ remotes' = None
    /\ ret' = None
    /\ log' = <<>>

\* process_config, main.rs:104-126: the match on mirror_repo's result.
MatchResult ==
    /\ pc = "match_result"
    /\ config_success' = match_mirror_result(config_success, unwrap(ret))
    /\ visited' = Append(visited, [mi |-> mi, ret |-> unwrap(ret)])
    /\ n_success' = IF unwrap(ret) = Ok("Success") THEN n_success + 1
                                                   ELSE n_success
    /\ results' = IF AnotherRunCanFollow
                  THEN Append(results, [ci |-> ci, mi |-> mi,
                                        ret |-> unwrap(ret),
                                        answers |-> Answers(log)])
                  ELSE results
    /\ pc' = "for_mirror"
    /\ MirrorRepoReturned
    /\ found' = "absent"
    /\ UNCHANGED <<fs, repo, ci, mi, root_success, result, exit_code,
                   config_rets>>
    /\ UNCHANGED <<RunVars, n_calls, same>>

\* The locals of a new run.
ResetProgram ==
    /\ pc' = "process_root_config"
    /\ ci' = 0
    /\ mi' = 0
    /\ root_success' = TRUE
    /\ config_success' = TRUE
    /\ remotes' = None
    /\ ret' = None
    /\ result' = None
    /\ exit_code' = None
    /\ log' = <<>>
    /\ config_rets' = <<>>
    /\ visited' = <<>>
    /\ n_calls' = 0
    /\ n_success' = 0
    /\ results' = <<>>
    /\ found' = "absent"
    /\ same' = TRUE

CanRunAgain == pc = "exit" /\ AnotherRunCanFollow

\* The program is run again on the same config and on the filesystem the
\* last run left.
Rerun ==
    /\ CanRunAgain
    /\ run' = run + 1
    /\ mode' = "rerun"
    /\ forced' = <<>>
    /\ env1' = Env
    /\ prev_results' = results
    /\ ResetProgram
    /\ UNCHANGED <<root_config, env0, fs, repo>>

\* The last run is repeated from the environment it started in, with the
\* push of one mirror that succeeded forced to fail.
WhatIf ==
    /\ CanRunAgain
    /\ \E k \in DOMAIN results :
          /\ results[k].ret = Ok("Success")
          /\ forced' = <<results[k].ci, results[k].mi>>
    /\ run' = run + 1
    /\ mode' = "whatif"
    /\ fs' = env1.fs
    /\ repo' = env1.repo
    /\ prev_results' = results
    /\ ResetProgram
    /\ UNCHANGED <<root_config, env0, env1>>

Next ==
    \/ EnsureWorkspace
    \/ NextConfig
    \/ FinishRoot
    \/ EnsureConfigDir
    \/ NextMirror
    \/ FinishConfig
    \/ Clone
    \/ Fetch
    \/ GetRemotes
    \/ AddMirrorRemote
    \/ Push
    \/ MatchResult
    \/ Rerun
    \/ WhatIf

Spec == Init /\ [][Next]_vars

\* ------------------------------------------------------------------ claims
\* mirror_repo has returned and process_config has not consumed the result
\* yet: ret, log, remotes and found describe the finished call.
MirrorReturned == pc = "match_result"

\* The subcommand of a logged invocation, without the leading -C <path>.
Cmd(entry) == SubSeq(entry.args, 3, Len(entry.args))

\* The working directory a logged invocation was given.
Cwd(entry) == entry.args[2]

\* process_config returned without an I/O error for every configuration and
\* the workspace is a directory.
SetupSucceeded ==
    /\ fs[workspace] = "dir"
    /\ Len(config_rets) = Len(root_config.configurations)
    /\ \A i \in DOMAIN config_rets : config_rets[i].ok

\* Every mirror of every configuration has ended in Success in this run.
EveryMirrorSucceeded == n_success = TotalMirrors(root_config)

\* C1: when the run is over, the overall result is true and the exit code 0
\* if and only if every mirror of every configuration ended in Success (and
\* the directories could be set up); one failed mirror makes it false / 1.
C1_AggregateSuccess ==
    pc = "exit" =>
        /\ result = Some(TRUE) <=> (SetupSucceeded /\ EveryMirrorSucceeded)
        /\ exit_code = Some(0) <=> (SetupSucceeded /\ EveryMirrorSucceeded)

\* The outcome a failure of the stage of a logged invocation must give.
OutcomeOfFailure(entry) ==
    LET cmd == Cmd(entry) IN
    IF cmd[1] = "clone" THEN "CloneFailed"
    ELSE IF cmd[1] = "fetch" THEN "FetchFailed"
    ELSE IF cmd[1] = "remote" THEN "RemotesError"
    ELSE "PushFailed"

FailedEntries(l) == {i \in DOMAIN l : ~l[i].success}

\* C3: when mirror_repo returns, a failed git invocation (nonzero exit, or
\* (false, None) from a spawn failure) is the last one of the call and the
\* outcome is the one of its stage: clone -> CloneFailed, fetch ->
\* FetchFailed, remote / remote add -> RemotesError, push -> PushFailed; and
\* the outcome is Success only if no invocation failed.
C3_StagePrecision ==
    MirrorReturned =>
        /\ \A i \in FailedEntries(log) :
              /\ i = Len(log)
              /\ unwrap(ret) = Ok(OutcomeOfFailure(log[i]))
        /\ unwrap(ret) = Ok("Success") => FailedEntries(log) = {}

\* C3 witness: a clone that could not even be spawned, (false, None), has
\* ended the call in CloneFailed.
C3_Witness ==
    /\ MirrorReturned
    /\ Len(log) = 1
    /\ Cmd(log[1])[1] = "clone"
    /\ ~log[1].success /\ ~log[1].text
    /\ unwrap(ret) = Ok("CloneFailed")

\* The mirrors of the configurations process_config has returned Ok for.
RECURSIVE MirrorsOfOk(_)
MirrorsOfOk(i) ==
    IF i = 0 THEN 0
    ELSE (IF config_rets[i].ok THEN Len(root_config.configurations[i].mirrors)
                               ELSE 0) + MirrorsOfOk(i - 1)

\* Position q = <<configuration, mirror>> comes after position p.
After(p, q) == q[1] > p[1] \/ (q[1] = p[1] /\ q[2] > p[2])

\* C2: (a) when a run is over, every mirror of every configuration whose
\* directory could be set up has been passed to mirror_repo, whatever the
\* earlier mirrors' outcomes; (b) in the repetition of a run with the push of
\* mirror m forced to fail, every mirror after m, in the same or a later
\* configuration, that git answers as before returns what it returned in
\* the original run.
C2_Isolation ==
    /\ pc = "exit" => n_calls = MirrorsOfOk(Len(config_rets))
    /\ (mode = "whatif" /\ MirrorReturned /\ same /\ After(forced, <<ci, mi>>))
          => \A k \in PrevAt(ci, mi) : unwrap(ret) = prev_results[k].ret

\* C2 witness: in a what-if run a mirror after the forced one has ended in
\* Success as in the original run.
C2_Witness ==
    /\ mode = "whatif" /\ MirrorReturned /\ same
    /\ After(forced, <<ci, mi>>)
    /\ PrevAt(ci, mi) # {}
    /\ unwrap(ret) = Ok("Success")

AddEntries(l) == {i \in DOMAIN l : Stage(l[i].args) = "add"}

PushEntries(l) == {i \in DOMAIN l : Stage(l[i].args) = "push"}

\* C4: in every run, once `remote` has reported the remote names: if
\* "mirror" is among them, the call never invokes `remote add`; if not, it
\* invokes `remote add mirror <dest>` in the repository exactly once, before
\* any push.
C4_RemoteNonDuplication ==
    (pc \in {"add_mirror_remote", "push", "match_result"} /\ remotes # None) =>
        IF contains(unwrap(remotes), MIRROR_REMOTE_NAME)
        THEN AddEntries(log) = {}
        ELSE IF pc = "add_mirror_remote"
        THEN AddEntries(log) = {} /\ PushEntries(log) = {}
        ELSE /\ Cardinality(AddEntries(log)) = 1
             /\ \A i \in AddEntries(log) :
                   /\ log[i].args = <<"-C", repo_path, "remote", "add",
                                      MIRROR_REMOTE_NAME, mirror.dest>>
                   /\ \A j \in PushEntries(log) : i < j

\* C4 witness: a second run finds the remote "mirror" that the first run
\* added, adds nothing and ends in Success.
C4_Witness ==
    /\ mode = "rerun" /\ MirrorReturned
    /\ remotes # None /\ contains(unwrap(remotes), MIRROR_REMOTE_NAME)
    /\ repo[repo_path].url = Some(mirror.dest)
    /\ AddEntries(log) = {}
    /\ unwrap(ret) = Ok("Success")

CloneEntries(l) == {i \in DOMAIN l : Cmd(l[i])[1] = "clone"}

\* The repository path of the mirror at position <<c, m>> of the config.
RepoPathAt(c, m) ==
    push_path(push_path(workspace, root_config.configurations[c].name),
              root_config.configurations[c].mirrors[m].name)

Positions == {<<c, m>> : c \in DOMAIN root_config.configurations,
                         m \in 1..MaxMirrors} \cap
             {p \in (1..MaxConfigs) \X (1..MaxMirrors) :
                 /\ p[1] \in DOMAIN root_config.configurations
                 /\ p[2] \in DOMAIN root_config.configurations[p[1]].mirrors}

\* Another mirror of the config has the same repository path.
SharesPath(c, m) ==
    \E p \in Positions : p # <<c, m>> /\ RepoPathAt(p[1], p[2]) = RepoPathAt(c, m)

\* A second run never clones over an existing directory but fetches.
NoCloneOverDirectory ==
    found = "dir" => (CloneEntries(log) = {} /\ Cmd(log[1]) = <<"fetch">>)

\* C5 as claimed: in a second run on the unchanged config, a mirror whose
\* directory exists when its processing starts is fetched, never cloned, and
\* if git answers each stage as in the first run, every mirror ends in the
\* outcome it had in the first run.
C5_Idempotence_Original ==
    (mode = "rerun" /\ MirrorReturned) =>
        /\ NoCloneOverDirectory
        /\ same => \A k \in PrevAt(ci, mi) : unwrap(ret) = prev_results[k].ret

\* C5 amended: the same, for every mirror whose repository path no other
\* mirror of the config shares.
C5_Idempotence ==
    (mode = "rerun" /\ MirrorReturned) =>
        /\ NoCloneOverDirectory
        /\ (same /\ ~SharesPath(ci, mi))
              => \A k \in PrevAt(ci, mi) : unwrap(ret) = prev_results[k].ret

\* C5 witness: a mirror cloned by the first run is fetched by the second
\* run, git answers as before and the outcome is PushFailed again.
C5_Witness ==
    /\ mode = "rerun" /\ MirrorReturned /\ same
    /\ ~SharesPath(ci, mi)
    /\ found = "dir"
    /\ Cmd(log[1]) = <<"fetch">>
    /\ unwrap(ret) = Ok("PushFailed")
    /\ \E k \in PrevAt(ci, mi) :
          /\ prev_results[k].ret = Ok("PushFailed")
          /\ prev_results[k].answers[1].stage = "local"
          /\ Len(prev_results[k].answers) = 4

ArgsOf(l) == [i \in DOMAIN l |-> l[i].args]

\* C6: a mirror_repo call that found no repository path, whose git commands
\* all succeeded and whose `remote` reported no remotes has invoked exactly
\* clone --mirror <src> <name> in the configuration directory, then remote,
\* remote add mirror <dest> and push --mirror mirror in the repository
\* directory, and returns Success; a run whose config is that one mirror
\* ends with result true and exit code 0.
C6_FirstRunTrace ==
    /\ (MirrorReturned /\ found = "absent" /\ FailedEntries(log) = {}
            /\ remotes = Some(<<>>))
          => /\ ArgsOf(log) =
                  << <<"-C", config_path, "clone", "--mirror", mirror.src,
                       mirror.name>>,
                     <<"-C", repo_path, "remote">>,
                     <<"-C", repo_path, "remote", "add", "mirror", mirror.dest>>,
                     <<"-C", repo_path, "push", "--mirror", "mirror">> >>
             /\ unwrap(ret) = Ok("Success")
    /\ (pc = "exit" /\ Len(root_config.configurations) = 1
            /\ TotalMirrors(root_config) = 1 /\ n_success = 1)
          => (result = Some(TRUE) /\ exit_code = Some(0))

\* C6 witness: the first run of a one-mirror config on an empty workspace is
\* over, the mirror succeeded and the repository has the mirror remote.
C6_Witness ==
    /\ pc = "exit" /\ run = 1
    /\ env0.fs[workspace] = "absent"
    /\ Len(root_config.configurations) = 1
    /\ TotalMirrors(root_config) = 1 /\ n_success = 1
    /\ \E q \in RepoPaths :
          fs[q] = "dir" /\ repo[q] = [remotes |-> {"mirror"}, url |-> Some("dest1")]

\* C7: while the workspace is not a directory the program is at its start
\* or, the creation having failed, at its end with result false: no
\* configuration has been processed, nothing has been created and no git
\* command has been invoked.
C7_WorkspaceFailure ==
    fs[workspace] # "dir" =>
        /\ pc \in {"process_root_config", "exit"}
        /\ ci = 0 /\ config_rets = <<>>
        /\ n_calls = 0 /\ log = <<>>
        /\ fs = env1.fs /\ repo = env1.repo
        /\ pc = "exit" => (result = Some(FALSE) /\ exit_code = Some(1))

\* C7 witness: the run of a config with mirrors is over and the workspace
\* still is no directory.
C7_Witness ==
    /\ pc = "exit"
    /\ fs[workspace] # "dir"
    /\ TotalMirrors(root_config) > 0
    /\ result = Some(FALSE)

InProcessConfig ==
    pc \in {"for_mirror", "mirror_repo", "get_remotes", "add_mirror_remote",
            "push", "match_result"}

\* C8, in every state: a configuration whose directory could not be created
\* makes the overall result false, none of its mirrors is passed to
\* mirror_repo, and the configurations are processed one after the other,
\* all of them by the end of the run.
C8_State ==
    /\ \A i \in DOMAIN config_rets : ~config_rets[i].ok =>
          IF pc = "exit" THEN result = Some(FALSE) ELSE ~root_success
    /\ n_calls = MirrorsOfOk(Len(config_rets)) + (IF InProcessConfig THEN mi ELSE 0)
    /\ Len(config_rets) = IF pc = "process_config" \/ InProcessConfig
                          THEN ci - 1 ELSE ci
    /\ (pc = "exit" /\ fs[workspace] = "dir")
          => Len(config_rets) = Len(root_config.configurations)

\* C8, in every step: the step in which the creation of a configuration
\* directory fails changes neither the filesystem nor the repositories, so
\* the later configurations find what they would have found.
C8_Step ==
    (pc = "process_config" /\ pc' = "for_config")
        => (fs' = fs /\ repo' = repo /\ ~config_rets'[ci].ok
            /\ n_calls' = n_calls /\ ci' = ci)

\* C8: a configuration whose directory cannot be created is marked failed
\* (overall result false) and none of its mirrors is attempted, while every
\* later configuration is still processed, in order, on an unchanged
\* environment.
C8_ConfigDirFailure == []C8_State /\ [][C8_Step]_vars

\* C8 witness: the run is over, the directory of the first configuration
\* could not be created and a mirror of the second one has succeeded.
C8_Witness ==
    /\ pc = "exit"
    /\ Len(config_rets) = 2
    /\ ~config_rets[1].ok
    /\ config_rets[2].ok /\ config_rets[2].value
    /\ Len(root_config.configurations[1].mirrors) > 0
    /\ n_calls = 1 /\ n_success = 1
    /\ result = Some(FALSE)

AllVisitedSucceeded == \A k \in DOMAIN visited : visited[k].ret = Ok("Success")

\* C9: inside process_config the mirrors passed to mirror_repo so far are
\* the first ones of the configuration, each once and in declaration order,
\* whatever their outcomes, and complete_success is true exactly if all of
\* them returned Success; when process_config returns Ok(flag), every mirror
\* of the configuration has been passed and flag is true exactly if all of
\* them returned Success.
C9_NoShortCircuit ==
    /\ InProcessConfig =>
          /\ Len(visited) = IF pc = "for_mirror" THEN mi ELSE mi - 1
          /\ \A k \in DOMAIN visited : visited[k].mi = k
          /\ config_success <=> AllVisitedSucceeded
    /\ (pc = "for_config" /\ ci >= 1 /\ config_rets[ci].ok) =>
          /\ Len(visited) = Len(config.mirrors)
          /\ \A k \in DOMAIN visited : visited[k].mi = k
          /\ config_rets[ci].value <=> AllVisitedSucceeded

\* C9 witness: process_config has returned Ok(false) after a first mirror
\* that failed and a second one that succeeded.
C9_Witness ==
    /\ pc = "for_config" /\ ci >= 1
    /\ config_rets[ci].ok /\ ~config_rets[ci].value
    /\ Len(visited) = 2
    /\ visited[1].ret # Ok("Success")
    /\ visited[2].ret = Ok("Success")

\* mirror_repo returns a value of MirrorResult, never an io::Error, after at
\* most four git invocations.
MirrorRepoReturnsOutcome ==
    /\ Len(log) <= 4
    /\ MirrorReturned =>
          /\ ret # None
          /\ unwrap(ret).ok
          /\ unwrap(ret).value \in MirrorResult
    /\ pc \in {"mirror_repo", "get_remotes", "add_mirror_remote", "push"}
          => ret = None

\* C10: mirror_repo never raises: it returns one of the five outcomes after
\* at most four git invocations, and, every git invocation returning, every
\* run reaches its end.
C10_NeverRaises == []MirrorRepoReturnsOutcome /\ []<>(pc = "exit")

\* C10 witness: a call has returned after four invocations of which the
\* last one could not be spawned.
C10_Witness ==
    /\ MirrorReturned
    /\ Len(log) = 4
    /\ ~log[4].success /\ ~log[4].text
    /\ unwrap(ret) = Ok("PushFailed")

\* mirror_repo has invoked its first git command, so log[1] is the step it
\* took on the repository path it found.
FirstStepTaken == Len(log) >= 1

\* C11: mirror_repo takes the clone step exactly when the repository path
\* was not a directory when it was called (absent, or present as something
\* else such as a regular file) and the fetch step exactly when it was a
\* directory.
C11_PresenceCheck ==
    FirstStepTaken =>
        /\ (Cmd(log[1])[1] = "clone") <=> (found # "dir")
        /\ (Cmd(log[1]) = <<"fetch">>) <=> (found = "dir")

\* The place of a stage in the sequence of mirror_repo.
StageRank(entry) ==
    LET st == Stage(entry.args) IN
    IF st = "local" THEN 1 ELSE IF st = "remote" THEN 2
    ELSE IF st = "add" THEN 3 ELSE 4

\* C12: the git commands of one mirror_repo call form a linear sequence
\* (clone or fetch, remote, remote add, push, never going back); a command
\* is invoked only if every earlier one of the call succeeded, and once one
\* has failed the call has returned; push --mirror mirror is invoked only
\* after the clone or fetch and `remote` succeeded and "mirror" was among
\* the reported names or was added by a successful remote add.
C12_LinearSequence ==
    /\ \A i \in DOMAIN log : \A j \in 1..(i - 1) :
          /\ log[j].success
          /\ StageRank(log[j]) < StageRank(log[i])
    /\ FailedEntries(log) # {} => MirrorReturned
    /\ \A i \in PushEntries(log) :
          /\ log[i].args = <<"-C", repo_path, "push", "--mirror", MIRROR_REMOTE_NAME>>
          /\ \E a \in 1..(i - 1) : Stage(log[a].args) = "local" /\ log[a].success
          /\ \E b \in 1..(i - 1) : Stage(log[b].args) = "remote" /\ log[b].success
          /\ remotes # None
          /\ \/ contains(unwrap(remotes), MIRROR_REMOTE_NAME)
             \/ \E c \in 1..(i - 1) : Stage(log[c].args) = "add" /\ log[c].success

\* C12 witness: a call has pushed after a successful fetch, `remote` and
\* remote add, and the push failed.
C12_Witness ==
    /\ MirrorReturned
    /\ Len(log) = 4
    /\ Cmd(log[1]) = <<"fetch">>
    /\ Stage(log[3].args) = "add" /\ log[3].success
    /\ Stage(log[4].args) = "push" /\ ~log[4].success
    /\ unwrap(ret) = Ok("PushFailed")

\* The workspace and the directory of the current configuration are
\* directories.
DirectoriesExist ==
    /\ is_dir(workspace, fs)
    /\ is_dir(push_path(workspace, root_config.configurations[ci].name), fs)

\* A path was a directory before the run or has been created by it.
PresentOrCreated(path) ==
    fs[path] = "dir" /\ env1.fs[path] \in {"absent", "dir"}

\* C13, in every state: while process_config is past its directory check
\* (mirror_repo may be called or is running), the workspace and the
\* configuration directory exist as directories, already present before the
\* run or created by it.
C13_State ==
    InProcessConfig =>
        /\ DirectoriesExist
        /\ PresentOrCreated(workspace)
        /\ PresentOrCreated(push_path(workspace, root_config.configurations[ci].name))

\* C13, in every step: a step that invokes a git command starts in a state
\* where both directories exist, and the command is run in the configuration
\* directory or in a repository path directly below it.
C13_Step ==
    Len(log') > Len(log) =>
        /\ DirectoriesExist
        /\ Cwd(log'[Len(log')]) \in
              {push_path(workspace, root_config.configurations[ci].name),
               push_path(push_path(workspace, root_config.configurations[ci].name),
                         root_config.configurations[ci].mirrors[mi].name)}

\* C13: a git command for a mirror of a configuration is invoked only when
\* the workspace root and the configuration directory exist as directories.
C13_DirectoriesBeforeGit == []C13_State /\ [][C13_Step]_vars

\* C13 witness: a clone has been run in a configuration directory that the
\* run created, below a workspace that the run created.
C13_Witness ==
    /\ MirrorReturned
    /\ Len(log) >= 1
    /\ Cmd(log[1])[1] = "clone" /\ log[1].success
    /\ env1.fs[workspace] = "absent"
    /\ env1.fs[config_path] = "absent"
    /\ fs[workspace] = "dir" /\ fs[config_path] = "dir"

\* The previous run's call for the current mirror ended in a failure.
PreviousFailed ==
    \E k \in PrevAt(ci, mi) : prev_results[k].ret # Ok("Success")

\* The output of every `remote` of the call could be decoded as UTF-8.
RemoteDecoded ==
    \A i \in DOMAIN log : Stage(log[i].args) = "remote" => log[i].text

\* What the runs of one mirror share: a call has at most one clone and one
\* remote add, and a mirror whose previous run cloned or fetched
\* successfully is not cloned again, one whose previous run added the mirror
\* remote successfully gets no second remote add.
AtMostOneCloneAndAdd ==
    /\ Cardinality(CloneEntries(log)) <= 1
    /\ Cardinality(AddEntries(log)) <= 1
    /\ \A k \in PrevAt(ci, mi) :
          /\ RecordedAnswer(prev_results[k], "local") = "ok"
                => CloneEntries(log) = {}
          /\ RecordedAnswer(prev_results[k], "add") = "ok"
                => AddEntries(log) = {}

\* C14 as claimed: in a run that follows a run on the same config and
\* filesystem, a mirror whose previous call failed and whose git commands
\* now all succeed ends in Success, and the mirror is cloned and given the
\* mirror remote at most once over the runs.
C14_Convergence_Original ==
    mode = "rerun" =>
        /\ (MirrorReturned /\ PreviousFailed /\ FailedEntries(log) = {})
              => unwrap(ret) = Ok("Success")
        /\ AtMostOneCloneAndAdd

\* C14 amended: the same, when in addition the output of `remote` can be
\* decoded as UTF-8.
C14_Convergence ==
    mode = "rerun" =>
        /\ (MirrorReturned /\ PreviousFailed /\ FailedEntries(log) = {}
                /\ RemoteDecoded)
              => unwrap(ret) = Ok("Success")
        /\ AtMostOneCloneAndAdd

\* C14 witness: the previous run cloned, added the mirror remote and failed
\* to push; this run fetches, finds the remote, pushes and ends in Success.
C14_Witness ==
    /\ mode = "rerun" /\ MirrorReturned
    /\ \E k \in PrevAt(ci, mi) :
          /\ prev_results[k].ret = Ok("PushFailed")
          /\ RecordedAnswer(prev_results[k], "add") = "ok"
    /\ env0.fs[repo_path] = "absent"
    /\ Len(log) = 3
    /\ Cmd(log[1]) = <<"fetch">>
    /\ FailedEntries(log) = {}
    /\ unwrap(ret) = Ok("Success")

\* The position <<configuration, mirror>> the program is at.
Position == <<ci, mi>>

\* Position q is position p or the next one in declaration order: the next
\* mirror of the same configuration, or the next configuration, whose
\* mirrors are counted from 0 again.
SameOrNext(p, q) ==
    \/ q = p
    \/ q[1] = p[1] /\ q[2] = p[2] + 1
    \/ q[1] = p[1] /\ q[2] = 0 /\ p[2] = Len(root_config.configurations[p[1]].mirrors)
    \/ q[1] = p[1] + 1 /\ p[2] = 0 /\ q[2] = 0

\* The git invocation that entry i of the log must be for the mirror
\* declared at the current position: its working directory and, for clone
\* and remote add, the declared source, name and destination.
DeclaredInvocation(entry) ==
    LET c  == root_config.configurations[ci]
        m  == c.mirrors[mi]
        cp == push_path(workspace, c.name)
        rp == push_path(cp, m.name)
    IN  entry.args \in {<<"-C", cp, "clone", "--mirror", m.src, m.name>>,
                        <<"-C", rp, "fetch">>,
                        <<"-C", rp, "remote">>,
                        <<"-C", rp, "remote", "add", MIRROR_REMOTE_NAME, m.dest>>,
                        <<"-C", rp, "push", "--mirror", MIRROR_REMOTE_NAME>>}

\* C15, in every state: the git invocations that are not yet accounted for
\* all belong to the mirror at the current position, the mirrors before it
\* in the configuration have all returned, and so have all mirrors of the
\* configurations before it.
C15_State ==
    /\ \A i \in DOMAIN log : DeclaredInvocation(log[i])
    /\ log # <<>> => pc \in {"get_remotes", "add_mirror_remote", "push",
                             "match_result"}
    /\ InProcessConfig =>
          /\ Len(visited) = IF pc = "for_mirror" THEN mi ELSE mi - 1
          /\ n_calls = MirrorsOfOk(ci - 1) + mi
          /\ Len(config_rets) = ci - 1
    /\ pc = "process_config" => (mi = 0 /\ log = <<>> /\ Len(config_rets) = ci - 1)

\* C15, in every step of a run: at most one git command is invoked, the
\* position stays or moves to the next one in declaration order, and the
\* directory of a configuration is created only when no mirror_repo call is
\* open, after every earlier configuration has returned.
C15_Step ==
    run' = run =>
        /\ Len(log') <= Len(log) + 1
        /\ SameOrNext(Position, Position')
        /\ (\E q \in ConfigPaths : fs'[q] # fs[q]) =>
              /\ pc = "process_config" /\ log = <<>> /\ log' = <<>>
              /\ Len(config_rets) = ci - 1
              /\ \A q \in ConfigPaths : fs'[q] # fs[q] =>
                    q = push_path(workspace, root_config.configurations[ci].name)

\* C15: configurations and mirrors are processed strictly one after the
\* other in declaration order, one git invocation at a time.
C15_Sequential == []C15_State /\ [][C15_Step]_vars

\* C15 witness: the first mirror of the second configuration has been
\* cloned after both mirrors of the first configuration had returned.
C15_Witness ==
    /\ MirrorReturned
    /\ Position = <<2, 1>>
    /\ Len(root_config.configurations[1].mirrors) = 2
    /\ n_calls = 3
    /\ Len(log) >= 1 /\ Cmd(log[1])[1] = "clone"

\* The earlier mirrors of the current configuration that have the name of
\* the current mirror.
EarlierOccurrences ==
    {j \in 1..(mi - 1) :
        root_config.configurations[ci].mirrors[j].name =
        root_config.configurations[ci].mirrors[mi].name}

\* The current mirror is the first of several mirrors of its configuration
\* with the same name.
FirstOccurrence ==
    /\ EarlierOccurrences = {}
    /\ \E j \in DOMAIN root_config.configurations[ci].mirrors :
          /\ j > mi
          /\ root_config.configurations[ci].mirrors[j].name =
             root_config.configurations[ci].mirrors[mi].name

PushTarget(entry) == repo[Cwd(entry)].url

\* The subcommands mirror_repo invokes; none of them changes the URL of an
\* existing remote.
InvokedCommands ==
    {<<"clone", "--mirror", m.src, m.name>> : m \in Mirror} \cup
    {<<"fetch">>, <<"remote">>, <<"push", "--mirror", MIRROR_REMOTE_NAME>>} \cup
    {<<"remote", "add", MIRROR_REMOTE_NAME, m.dest>> : m \in Mirror}

\* C17, in every state: mirror_repo invokes only clone, fetch, remote,
\* remote add and push; once `remote` has listed "mirror", the call invokes
\* no remote add, whatever destination the config gives; a push goes to the
\* URL the remote has, which is the config's destination only if this call
\* added the remote.
C17_State ==
    /\ \A i \in DOMAIN log : Cmd(log[i]) \in InvokedCommands
    /\ (remotes # None /\ contains(unwrap(remotes), MIRROR_REMOTE_NAME))
          => /\ AddEntries(log) = {}
             /\ repo[repo_path].url # None
    /\ \A i \in PushEntries(log) :
          /\ log[i].success => PushTarget(log[i]) # None
          /\ (\E a \in AddEntries(log) : log[a].success)
                => PushTarget(log[i]) = Some(mirror.dest)

\* C17, in every step of a run: a mirror remote that has a URL keeps it.
C17_Step ==
    pc # "exit" =>
        \A q \in RepoPaths :
            repo[q].url # None => repo'[q].url = repo[q].url

\* C17: an existing mirror remote is never re-pointed: no command that
\* changes its URL is invoked, and push --mirror mirror goes to the URL the
\* remote already had, also when the config names another destination.
C17_RemoteNeverRepointed == []C17_State /\ [][C17_Step]_vars

\* C17 witness: a mirror has ended in Success with a push to the URL the
\* mirror remote had before the first run, while no repository has a remote
\* for the destination the config gives.
C17_Witness ==
    /\ MirrorReturned
    /\ unwrap(ret) = Ok("Success")
    /\ env0.repo[repo_path].url = Some(PreexistingUrl)
    /\ PushEntries(log) # {}
    /\ \A i \in PushEntries(log) : PushTarget(log[i]) = Some(PreexistingUrl)
    /\ mirror.dest # PreexistingUrl
    /\ \A q \in RepoPaths : repo[q].url # Some(mirror.dest)

RemoteEntries(l) == {i \in DOMAIN l : Stage(l[i].args) = "remote"}

\* mirror_repo has gone on after the `remote` at entry i of its log: to
\* remote add or to the push.
ProceededAfter(i) ==
    /\ remotes # None
    /\ i = Len(log) => pc \in {"add_mirror_remote", "push"}

\* mirror_repo has returned RemotesError right after the `remote` at entry i.
EndedInDiscovery(i) ==
    /\ i = Len(log)
    /\ MirrorReturned
    /\ remotes = None
    /\ unwrap(ret) = Ok("RemotesError")

\* C18 as claimed: whenever `remote` exits with status 0, mirror_repo goes
\* on to remote provisioning and push, also when the output could not be
\* decoded; only a failed `remote` ends the call in RemotesError there.
C18_RemotesErrorOnlyOnFailure_Original ==
    \A i \in RemoteEntries(log) :
        IF log[i].success THEN ProceededAfter(i) ELSE EndedInDiscovery(i)

\* C18 amended: mirror_repo goes on after `remote` exactly when the command
\* exits with status 0 and its output can be decoded as UTF-8; when the
\* command fails or its output cannot be decoded, the call ends in
\* RemotesError.
C18_RemotesErrorOnlyOnFailure ==
    \A i \in RemoteEntries(log) :
        IF log[i].success /\ log[i].text
        THEN ProceededAfter(i) ELSE EndedInDiscovery(i)

\* C18 witness: `remote` exited with status 0, its output could not be
\* decoded, and the call has ended in RemotesError.
C18_Witness ==
    /\ MirrorReturned
    /\ Len(log) = 2
    /\ Stage(log[2].args) = "remote"
    /\ log[2].success /\ ~log[2].text
    /\ unwrap(ret) = Ok("RemotesError")

\* The steps of the program itself.
Program ==
    \/ EnsureWorkspace
    \/ NextConfig
    \/ FinishRoot
    \/ EnsureConfigDir
    \/ NextMirror
    \/ FinishConfig
    \/ Clone
    \/ Fetch
    \/ GetRemotes
    \/ AddMirrorRemote
    \/ Push
    \/ MatchResult

\* The program is single-threaded and blocks only on git, so with every git
\* invocation returning it always takes its next step.
FairSpec == Spec /\ WF_vars(Program)

====
